---- MODULE Spec2Model ----
(***************************************************************************)
(* Attestation agent (attestation-agent/src/lib.rs): the measurement       *)
(* extension protocol.  AttestationAgent owns a Config, an attester and a  *)
(* Mutex<EventLog>.  init and extend_runtime_measurement compute an entry  *)
(* and its digest, take the eventlog mutex, ask the attester to extend a   *)
(* measurement register and then append the entry text to the log.         *)
(*                                                                         *)
(* A call is a future: `calls` holds every call issued, with its position, *)
(* its locals while it runs and its result once it has returned.  A step   *)
(* of the model is the code of one call between two suspension points      *)
(* (.await).  The attester, the event log, the hash algorithms, the token  *)
(* types and the configuration parser live in other modules of the         *)
(* repository; they are modelled from their documented interface.  Hashes  *)
(* are ideal: a digest is the pair of the algorithm and the preimage, a    *)
(* register value is the pair of the old value and the digest extended     *)
(* into it, so that two values are equal only if they were computed from   *)
(* the same inputs in the same order.                                      *)
(***************************************************************************)
EXTENDS Naturals, Sequences, FiniteSets, TLC

\* ---------------------------------------------------------------- bounds
\* calls in progress at one time, and calls issued in one behaviour
NumCallers == 2
MaxCalls == 3

\* ------------------------------------------------------------- constants
DEFAULT_PCR_INDEX == 17

\* Option<u64>: None is the empty tuple, Some(i) the tuple of i
None == <<>>

Some(i) == <<i>>

\* ---------------------------------------------------------- input domains
HashAlgorithm == {"Sha256", "Sha384", "Sha512"}
RegisterIndices == {DEFAULT_PCR_INDEX, DEFAULT_PCR_INDEX + 1}
OptionalIndices == {None, Some(DEFAULT_PCR_INDEX + 1)}
Domains == {"workload"}
Operations == {"start"}
Contents == {"v1"}
TokenTypeInputs == {"kbs", "coco_as", "unknown-type"}
Configs == [eventlog_algorithm : HashAlgorithm, init_pcr : RegisterIndices]
\* a configuration text: whether it parses, and the Config it parses to
ConfInputs == [parses : BOOLEAN, value : Configs]

\* ------------------------------------------------------------------ state
VARIABLES
    config,     \* AttestationAgent.config
    reg,        \* the attester's measurement registers, by register index
    log,        \* the lines of the EventLog behind AttestationAgent.eventlog
    lock,       \* the call that holds the eventlog mutex, 0 when free
    calls,      \* the calls issued: operation, argument, position, locals, result
    serial,     \* history: no call was issued while another was in progress
    regOrder,   \* history: the register extensions, in order
    logOrder    \* history: the calls that appended to the log, in order

vars == <<config, reg, log, lock, calls, serial, regOrder, logOrder>>

\* ---------------------------------------------------- HashAlgorithm (leaf)
Digest(alg, bytes) == <<alg, bytes>>

\* ------------------------------------------------------- attester register
Zero == <<>>

Chain(old, digest) == <<old, digest>>

AttesterExtend(r, digest, index) == [r EXCEPT ![index] = Chain(@, digest)]

\* ----------------------------------------------------- EventEntry/EventLog
EventEntryToString(domain, operation, content) ==
    domain \o " " \o operation \o " " \o content

write_log(l, text) == Append(l, text)

\* -------------------------------------------------------------- TokenType
TokenTypeFromStr(s) ==
    CASE s = "kbs" -> "Kbs"
      [] s = "coco_as" -> "CoCoAS"
      [] OTHER -> "Err"

\* ----------------------------------------------------------------- Config
\* Result<Config>: Ok(v) is the tuple of v, Err the empty tuple
ConfigTryFrom(conf) == IF conf.parses THEN <<conf.value>> ELSE <<>>

\* ------------------------------------------------------------------- init
Init ==
    /\ config \in Configs
    /\ reg = [i \in RegisterIndices |-> Zero]
    /\ log = <<>>
    /\ lock = 0
    /\ calls = <<>>
    /\ serial = TRUE
    /\ regOrder = <<>>
    /\ logOrder = <<>>

\* ------------------------------------------------------------------ calls
Running == {i \in DOMAIN calls : calls[i].pc # "done"}

\* a call is issued: `serial` holds as long as no other is in progress
Issue(call) ==
    /\ Len(calls) < MaxCalls
    /\ Cardinality(Running) < NumCallers
    /\ calls' = Append(calls, call)
    /\ serial' = (serial /\ Running = {})

Call(op, arg, pc, res, register_index, log_entry, event_digest) ==
    [op |-> op, arg |-> arg, pc |-> pc, res |-> res,
     register_index |-> register_index, log_entry |-> log_entry,
     event_digest |-> event_digest]

\* a call that has no locals, or has returned at once
Plain(op, arg, pc, res) == Call(op, arg, pc, res, 0, "", <<>>)

Extended(id, index, digest) == [id |-> id, index |-> index, digest |-> digest]

At(i, op, pc) == i \in DOMAIN calls /\ calls[i].op = op /\ calls[i].pc = pc

Goto(i, pc) ==
    /\ calls' = [calls EXCEPT ![i].pc = pc]
    /\ serial' = serial

\* call i returns `result`; its locals go out of scope
Return(i, result) ==
    /\ calls' = [calls EXCEPT ![i].pc = "done", ![i].res = result,
                              ![i].register_index = 0, ![i].log_entry = "",
                              ![i].event_digest = <<>>]
    /\ serial' = serial

IsErr(result) == result \in {"Err", "ErrExtend", "ErrLog"}

\* ------------------------------------------------- AttestationAgent::init
\* mutant: the Sha384 literal carries the 64 zeros of the Sha256 one
InitEntry_CopiedZeros(alg) ==
    CASE alg = "Sha256" -> "INIT sha256/0000000000000000000000000000000000000000000000000000000000000000"
      [] alg = "Sha384" -> "INIT sha384/0000000000000000000000000000000000000000000000000000000000000000"
      [] alg = "Sha512" -> "INIT sha512/00000000000000000000000000000000000000000000000000000000000000000000000000000000000000000000000000000000000000000000000000000000"

InitEntry(alg) ==
    CASE alg = "Sha256" -> "INIT sha256/0000000000000000000000000000000000000000000000000000000000000000"
      [] alg = "Sha384" -> "INIT sha384/000000000000000000000000000000000000000000000000000000000000000000000000000000000000000000000000"
      [] alg = "Sha512" -> "INIT sha512/00000000000000000000000000000000000000000000000000000000000000000000000000000000000000000000000000000000000000000000000000000000"

\* lines 88-98: the entry and its digest, from the configured algorithm
InitCall ==
    /\ LET init_entry == InitEntry(config.eventlog_algorithm)
           event_digest == Digest(config.eventlog_algorithm, init_entry)
       IN Issue(Call("init", None, "lock", "pending", 0, init_entry,
                     event_digest))
    /\ UNCHANGED <<config, reg, log, lock, regOrder, logOrder>>

\* mutant: init extends and logs without waiting for the guard
InitLock_NoMutex(i) ==
    /\ At(i, "init", "lock")
    /\ lock' = i
    /\ Goto(i, "extend")
    /\ UNCHANGED <<config, reg, log, regOrder, logOrder>>

\* line 100: self.eventlog.lock().await
InitLock(i) ==
    /\ At(i, "init", "lock")
    /\ lock = 0
    /\ lock' = i
    /\ Goto(i, "extend")
    /\ UNCHANGED <<config, reg, log, regOrder, logOrder>>

\* mutant: init appends its entry first and extends the register afterwards
InitExtend_LogFirst(i) ==
    /\ At(i, "init", "extend")
    /\ log' = write_log(log, calls[i].log_entry)
    /\ logOrder' = Append(logOrder, i)
    /\ Goto(i, "write")
    /\ UNCHANGED <<config, reg, lock, regOrder>>

\* lines 102-105: the attester extends register init_pcr
InitExtend(i) ==
    /\ At(i, "init", "extend")
    /\ reg' = AttesterExtend(reg, calls[i].event_digest, config.init_pcr)
    /\ regOrder' = Append(regOrder,
                          Extended(i, config.init_pcr, calls[i].event_digest))
    /\ Goto(i, "write")
    /\ UNCHANGED <<config, log, lock, logOrder>>

\* mutant: the error return of init leaves the guard taken
InitExtendFail_KeepsGuard(i) ==
    /\ At(i, "init", "extend")
    /\ lock' = lock
    /\ Return(i, "ErrExtend")
    /\ UNCHANGED <<config, reg, log, regOrder, logOrder>>

\* lines 102-105: the attester fails; `?` returns, the guard is dropped
InitExtendFail(i) ==
    /\ At(i, "init", "extend")
    /\ lock' = 0
    /\ Return(i, "ErrExtend")
    /\ UNCHANGED <<config, reg, log, regOrder, logOrder>>

\* mutant: init starts the log afresh with its entry
InitWriteLog_Resets(i) ==
    /\ At(i, "init", "write")
    /\ log' = <<calls[i].log_entry>>
    /\ logOrder' = <<i>>
    /\ lock' = 0
    /\ Return(i, "Ok")
    /\ UNCHANGED <<config, reg, regOrder>>

\* lines 106-108: write_log succeeds, Ok(()), the guard is dropped
InitWriteLog(i) ==
    /\ At(i, "init", "write")
    /\ log' = write_log(log, calls[i].log_entry)
    /\ logOrder' = Append(logOrder, i)
    /\ lock' = 0
    /\ Return(i, "Ok")
    /\ UNCHANGED <<config, reg, regOrder>>

\* mutant: the result of write_log is dropped and init returns Ok
InitWriteLogFail_Swallowed(i) ==
    /\ At(i, "init", "write")
    /\ lock' = 0
    /\ Return(i, "Ok")
    /\ UNCHANGED <<config, reg, log, regOrder, logOrder>>

\* line 106: write_log fails; `?` returns, the guard is dropped
InitWriteLogFail(i) ==
    /\ At(i, "init", "write")
    /\ lock' = 0
    /\ Return(i, "ErrLog")
    /\ UNCHANGED <<config, reg, log, regOrder, logOrder>>

\* ----------------------- AttestationAgent::extend_runtime_measurement
\* mutant: the supplied index is ignored
ResolveIndex_AlwaysDefault(register_index) == DEFAULT_PCR_INDEX

\* lines 202-205: register_index.unwrap_or_else(|| DEFAULT_PCR_INDEX)
ResolveIndex(register_index) ==
    IF register_index = None THEN DEFAULT_PCR_INDEX ELSE register_index[1]

\* mutant: the digest is taken of the content, not of the entry's text
ExtCall_DigestOfContent(domain, operation, content, register_index) ==
    /\ LET log_entry == EventEntryToString(domain, operation, content)
           event_digest == Digest(config.eventlog_algorithm, content)
       IN Issue(Call("extend", register_index, "lock", "pending",
                     ResolveIndex(register_index), log_entry, event_digest))
    /\ UNCHANGED <<config, reg, log, lock, regOrder, logOrder>>

\* lines 202-208: index, entry and digest
ExtCall(domain, operation, content, register_index) ==
    /\ LET log_entry == EventEntryToString(domain, operation, content)
           event_digest == Digest(config.eventlog_algorithm, log_entry)
       IN Issue(Call("extend", register_index, "lock", "pending",
                     ResolveIndex(register_index), log_entry, event_digest))
    /\ UNCHANGED <<config, reg, log, lock, regOrder, logOrder>>

\* mutant: the extension does not wait for the guard
ExtLock_NoMutex(i) ==
    /\ At(i, "extend", "lock")
    /\ lock' = i
    /\ Goto(i, "extend")
    /\ UNCHANGED <<config, reg, log, regOrder, logOrder>>

\* line 210: self.eventlog.lock().await
ExtLock(i) ==
    /\ At(i, "extend", "lock")
    /\ lock = 0
    /\ lock' = i
    /\ Goto(i, "extend")
    /\ UNCHANGED <<config, reg, log, regOrder, logOrder>>

\* mutant: the digest is computed at the extension, from the Config then held
ExtExtend_DigestNow(i) ==
    /\ At(i, "extend", "extend")
    /\ reg' = AttesterExtend(reg, Digest(config.eventlog_algorithm,
                                         calls[i].log_entry),
                             calls[i].register_index)
    /\ regOrder' = Append(regOrder,
                          Extended(i, calls[i].register_index,
                                   Digest(config.eventlog_algorithm,
                                          calls[i].log_entry)))
    /\ Goto(i, "write")
    /\ UNCHANGED <<config, log, lock, logOrder>>

\* lines 212-214: the attester extends register register_index
ExtExtend(i) ==
    /\ At(i, "extend", "extend")
    /\ reg' = AttesterExtend(reg, calls[i].event_digest,
                             calls[i].register_index)
    /\ regOrder' = Append(regOrder,
                          Extended(i, calls[i].register_index,
                                   calls[i].event_digest))
    /\ Goto(i, "write")
    /\ UNCHANGED <<config, log, lock, logOrder>>

\* mutant: the entry is logged before the extension is attempted
ExtExtendFail_AfterLog(i) ==
    /\ At(i, "extend", "extend")
    /\ log' = write_log(log, calls[i].log_entry)
    /\ logOrder' = Append(logOrder, i)
    /\ lock' = 0
    /\ Return(i, "ErrExtend")
    /\ UNCHANGED <<config, reg, regOrder>>

\* lines 212-214: the attester fails; `?` returns, the guard is dropped
ExtExtendFail(i) ==
    /\ At(i, "extend", "extend")
    /\ lock' = 0
    /\ Return(i, "ErrExtend")
    /\ UNCHANGED <<config, reg, log, regOrder, logOrder>>

\* lines 216-218: write_log succeeds, Ok(()), the guard is dropped
ExtWriteLog(i) ==
    /\ At(i, "extend", "write")
    /\ log' = write_log(log, calls[i].log_entry)
    /\ logOrder' = Append(logOrder, i)
    /\ lock' = 0
    /\ Return(i, "Ok")
    /\ UNCHANGED <<config, reg, regOrder>>

\* mutant: the result of write_log is dropped and the call returns Ok
ExtWriteLogFail_Swallowed(i) ==
    /\ At(i, "extend", "write")
    /\ lock' = 0
    /\ Return(i, "Ok")
    /\ UNCHANGED <<config, reg, log, regOrder, logOrder>>

\* mutant: after a failed append the call extends and appends once more
ExtWriteLogFail_Retry(i) ==
    /\ At(i, "extend", "write")
    /\ Goto(i, "extend")
    /\ UNCHANGED <<config, reg, log, lock, regOrder, logOrder>>

\* line 216: write_log fails; `?` returns, the guard is dropped
ExtWriteLogFail(i) ==
    /\ At(i, "extend", "write")
    /\ lock' = 0
    /\ Return(i, "ErrLog")
    /\ UNCHANGED <<config, reg, log, regOrder, logOrder>>

\* ------------------------------------------- AttestationAgent::get_token
\* mutant: an unsupported type falls through to a token getter
GetTokenCall_FallThrough(token_type) ==
    /\ Issue(Plain("get_token", <<token_type>>, "wait", "pending"))
    /\ UNCHANGED <<config, reg, log, lock, regOrder, logOrder>>

\* line 165: an unsupported type returns the error at once; lines 167-180:
\* otherwise the call awaits the token getter of the variant
GetTokenCall(token_type) ==
    /\ IF TokenTypeFromStr(token_type) = "Err"
       THEN Issue(Plain("get_token", <<token_type>>, "done", "Err"))
       ELSE Issue(Plain("get_token", <<token_type>>, "wait", "pending"))
    /\ UNCHANGED <<config, reg, log, lock, regOrder, logOrder>>

\* lines 169-179: the token getter returns a token or an error
GetTokenReturn(i, result) ==
    /\ At(i, "get_token", "wait")
    /\ Return(i, result)
    /\ UNCHANGED <<config, reg, log, lock, regOrder, logOrder>>

\* ---------------------------------------- AttestationAgent::get_evidence
\* line 185: the call awaits the attester
GetEvidenceCall ==
    /\ Issue(Plain("get_evidence", None, "wait", "pending"))
    /\ UNCHANGED <<config, reg, log, lock, regOrder, logOrder>>

\* mutant: get_evidence returns only once the eventlog guard is free
GetEvidenceReturn_WaitsForGuard(i, result) ==
    /\ At(i, "get_evidence", "wait")
    /\ lock = 0
    /\ Return(i, result)
    /\ UNCHANGED <<config, reg, log, lock, regOrder, logOrder>>

\* lines 185-186: the attester returns the evidence or an error
GetEvidenceReturn(i, result) ==
    /\ At(i, "get_evidence", "wait")
    /\ Return(i, result)
    /\ UNCHANGED <<config, reg, log, lock, regOrder, logOrder>>

\* ------------------------------------- AttestationAgent::check_init_data
\* line 224: the call awaits the attester
CheckInitDataCall ==
    /\ Issue(Plain("check_init_data", None, "wait", "pending"))
    /\ UNCHANGED <<config, reg, log, lock, regOrder, logOrder>>

\* line 224: the attester returns its result or an error
CheckInitDataReturn(i, result) ==
    /\ At(i, "check_init_data", "wait")
    /\ Return(i, result)
    /\ UNCHANGED <<config, reg, log, lock, regOrder, logOrder>>

\* -------------------------------- AttestationAgent::update_configuration
\* mutant: a call that fails has already assigned what it was given
UpdateConfiguration_ErrAssigns(conf, tmpfile_ok) ==
    /\ IF tmpfile_ok /\ ConfigTryFrom(conf) # <<>>
       THEN /\ config' = ConfigTryFrom(conf)[1]
            /\ Issue(Plain("update_configuration", <<conf>>, "done", "Ok"))
       ELSE /\ config' = conf.value
            /\ Issue(Plain("update_configuration", <<conf>>, "done", "Err"))
    /\ UNCHANGED <<reg, log, lock, regOrder, logOrder>>

\* mutant: only the algorithm of the parsed Config is taken over
UpdateConfiguration_Merge(conf, tmpfile_ok) ==
    /\ IF tmpfile_ok /\ ConfigTryFrom(conf) # <<>>
       THEN /\ config' = [config EXCEPT !.eventlog_algorithm =
                             ConfigTryFrom(conf)[1].eventlog_algorithm]
            /\ Issue(Plain("update_configuration", <<conf>>, "done", "Ok"))
       ELSE /\ config' = config
            /\ Issue(Plain("update_configuration", <<conf>>, "done", "Err"))
    /\ UNCHANGED <<reg, log, lock, regOrder, logOrder>>

\* lines 139-141 may fail on the temporary file, line 143 on the parse;
\* line 152 assigns the whole Config
UpdateConfiguration(conf, tmpfile_ok) ==
    /\ IF tmpfile_ok /\ ConfigTryFrom(conf) # <<>>
       THEN /\ config' = ConfigTryFrom(conf)[1]
            /\ Issue(Plain("update_configuration", <<conf>>, "done", "Ok"))
       ELSE /\ config' = config
            /\ Issue(Plain("update_configuration", <<conf>>, "done", "Err"))
    /\ UNCHANGED <<reg, log, lock, regOrder, logOrder>>

\* --------------------------------------------------------- specifications
\* The measurement-extension protocol: init and extend_runtime_measurement
\* by concurrent callers, under every Config.
Next ==
    \/ InitCall
    \/ \E d \in Domains, o \in Operations, t \in Contents,
          r \in OptionalIndices : ExtCall(d, o, t, r)
    \/ \E i \in DOMAIN calls : InitLock(i)
    \/ \E i \in DOMAIN calls : InitExtend(i)
    \/ \E i \in DOMAIN calls : InitExtendFail(i)
    \/ \E i \in DOMAIN calls : InitWriteLog(i)
    \/ \E i \in DOMAIN calls : InitWriteLogFail(i)
    \/ \E i \in DOMAIN calls : ExtLock(i)
    \/ \E i \in DOMAIN calls : ExtExtend(i)
    \/ \E i \in DOMAIN calls : ExtExtendFail(i)
    \/ \E i \in DOMAIN calls : ExtWriteLog(i)
    \/ \E i \in DOMAIN calls : ExtWriteLogFail(i)

Spec == Init /\ [][Next]_vars

\* The whole agent: every operation, the extensions on one entry.
AgentConfInputs ==
    {conf \in ConfInputs :
        conf.value = [eventlog_algorithm |-> "Sha384",
                      init_pcr |-> DEFAULT_PCR_INDEX + 1]}

\* lines 113-122: the Config the agent is constructed with
StartConfig ==
    [eventlog_algorithm |-> "Sha256", init_pcr |-> DEFAULT_PCR_INDEX]

InitAgent ==
    /\ Init
    /\ config = StartConfig

NextAgent ==
    \/ InitCall
    \/ ExtCall("workload", "start", "v1", None)
    \/ \E tt \in TokenTypeInputs : GetTokenCall(tt)
    \/ GetEvidenceCall
    \/ CheckInitDataCall
    \/ \E conf \in AgentConfInputs, ok \in BOOLEAN :
          UpdateConfiguration(conf, ok)
    \/ \E i \in DOMAIN calls : InitLock(i)
    \/ \E i \in DOMAIN calls : InitExtend(i)
    \/ \E i \in DOMAIN calls : InitExtendFail(i)
    \/ \E i \in DOMAIN calls : InitWriteLog(i)
    \/ \E i \in DOMAIN calls : InitWriteLogFail(i)
    \/ \E i \in DOMAIN calls : ExtLock(i)
    \/ \E i \in DOMAIN calls : ExtExtend(i)
    \/ \E i \in DOMAIN calls : ExtExtendFail(i)
    \/ \E i \in DOMAIN calls : ExtWriteLog(i)
    \/ \E i \in DOMAIN calls : ExtWriteLogFail(i)
    \/ \E i \in DOMAIN calls, r \in {"Ok", "Err"} : GetTokenReturn(i, r)
    \/ \E i \in DOMAIN calls, r \in {"Ok", "Err"} : GetEvidenceReturn(i, r)
    \/ \E i \in DOMAIN calls, r \in {"Ok", "Err"} : CheckInitDataReturn(i, r)

SpecAgent == InitAgent /\ [][NextAgent]_vars

\* The protocol under the scheduling the code relies on: tokio's Mutex
\* grants the guard in request order, so a call that waits for it gets it
\* once it has been free often enough (lines 100, 210); the attester and
\* write_log return, with success or failure (lines 102-106, 212-216).
\* Callers are under no obligation to issue calls.
Fairness ==
    /\ \A i \in 1..MaxCalls : SF_vars(InitLock(i) \/ ExtLock(i))
    /\ WF_vars(\E i \in DOMAIN calls :
                  \/ InitExtend(i) \/ InitExtendFail(i)
                  \/ InitWriteLog(i) \/ InitWriteLogFail(i)
                  \/ ExtExtend(i) \/ ExtExtendFail(i)
                  \/ ExtWriteLog(i) \/ ExtWriteLogFail(i))

\* init and extend_runtime_measurement on one entry: the guard is taken and
\* released alike whatever the entry and the register
NextGuard ==
    \/ InitCall
    \/ ExtCall("workload", "start", "v1", None)
    \/ \E i \in DOMAIN calls : InitLock(i)
    \/ \E i \in DOMAIN calls : InitExtend(i)
    \/ \E i \in DOMAIN calls : InitExtendFail(i)
    \/ \E i \in DOMAIN calls : InitWriteLog(i)
    \/ \E i \in DOMAIN calls : InitWriteLogFail(i)
    \/ \E i \in DOMAIN calls : ExtLock(i)
    \/ \E i \in DOMAIN calls : ExtExtend(i)
    \/ \E i \in DOMAIN calls : ExtExtendFail(i)
    \/ \E i \in DOMAIN calls : ExtWriteLog(i)
    \/ \E i \in DOMAIN calls : ExtWriteLogFail(i)

SpecFair == InitAgent /\ [][NextGuard]_vars /\ Fairness

TypeOK ==
    /\ config \in Configs
    /\ lock \in {0} \cup DOMAIN calls
    /\ Len(calls) <= MaxCalls
    /\ Cardinality(Running) <= NumCallers
    /\ serial \in BOOLEAN
    /\ Len(logOrder) = Len(log)

\* ================================================================ claims
Quiescent == Running = {}

CallIds == 1..Len(calls)

Serial == serial

AllOk == \A i \in CallIds : calls[i].res = "Ok"

OnlyExtends == \A i \in CallIds : calls[i].op = "extend"

RegIds == [k \in 1..Len(regOrder) |-> regOrder[k].id]

IdsOf(order) == {order[k] : k \in 1..Len(order)}

NumErrLog == Cardinality({i \in CallIds : calls[i].res = "ErrLog"})

\* the calls between taking the guard and returning, and those that have
\* extended the register and are about to append to the log
InCritical == {i \in CallIds : calls[i].pc \in {"extend", "write"}}

InWrite == {i \in CallIds : calls[i].pc = "write"}

\* the register an extension is expected to reach, from the call's argument
ExpectedIndex(arg) == IF arg = None THEN 17 ELSE arg[1]

\* the whole log replayed through the chaining function
RECURSIVE Replay(_, _)
Replay(k, alg) ==
    IF k = 0 THEN Zero
    ELSE Chain(Replay(k - 1, alg), Digest(alg, log[k]))

\* the log entries of the calls that resolved to register r, replayed
RECURSIVE ReplayLane(_, _, _)
ReplayLane(k, r, alg) ==
    IF k = 0 THEN Zero
    ELSE IF ExpectedIndex(calls[logOrder[k]].arg) = r
         THEN Chain(ReplayLane(k - 1, r, alg), Digest(alg, log[k]))
         ELSE ReplayLane(k - 1, r, alg)

\* the digests extended into register r, in order of extension, chained
RECURSIVE ChainOf(_, _)
ChainOf(k, r) ==
    IF k = 0 THEN Zero
    ELSE IF regOrder[k].index = r
         THEN Chain(ChainOf(k - 1, r), regOrder[k].digest)
         ELSE ChainOf(k - 1, r)

SequentialExtends == Quiescent /\ Serial /\ OnlyExtends /\ AllOk

C2_LogOrderIsExtensionOrder ==
    (\A i \in CallIds : ~IsErr(calls[i].res))
        => /\ Len(logOrder) <= Len(RegIds)
           /\ Len(RegIds) <= Len(logOrder) + 1
           /\ logOrder = SubSeq(RegIds, 1, Len(logOrder))
           /\ Cardinality(IdsOf(logOrder)) = Len(logOrder)
           /\ Quiescent => (Len(log) = Len(calls) /\ logOrder = RegIds)

C2_Witness ==
    /\ Quiescent
    /\ OnlyExtends
    /\ AllOk
    /\ Len(calls) = MaxCalls
    /\ ~Serial
    /\ logOrder[1] # 1

\* C3: the eventlog guard is held across the register extension and the log
\* append, in init and in extend_runtime_measurement: at most one call is
\* between taking the guard and finishing its log append, and between a
\* call's extension and its append no other call extends or appends.
C3_GuardAcrossBothSteps ==
    /\ Cardinality(InCritical) <= 1
    /\ \A i \in CallIds : i \in InCritical <=> lock = i
    /\ lock = 0 <=> InCritical = {}
    /\ \A i \in InWrite :
          /\ regOrder[Len(regOrder)].id = i
          /\ Len(regOrder) = Len(logOrder) + NumErrLog + 1
    /\ InWrite = {} => Len(regOrder) = Len(logOrder) + NumErrLog

C3_Witness ==
    \E i, j \in CallIds :
        /\ At(i, "init", "write")
        /\ At(j, "extend", "lock")
        /\ Len(log) > 0

\* C4: when the attester's register extension fails in init or in
\* extend_runtime_measurement, the call returns an error, the failing step
\* leaves the log and the registers as they are, and the call has appended
\* no entry.
C4_FailedExtensionStep ==
    \A i \in CallIds :
        (calls[i].pc = "extend" /\ calls'[i].pc = "done")
            => /\ calls'[i].res = "ErrExtend"
               /\ log' = log
               /\ logOrder' = logOrder
               /\ i \notin IdsOf(logOrder)

C4_FailedExtensionLeavesLog ==
    /\ [][C4_FailedExtensionStep]_vars
    /\ [](\A i \in CallIds :
            calls[i].res = "ErrExtend"
                => i \notin IdsOf(logOrder) /\ i \notin IdsOf(RegIds))

C4_Witness ==
    /\ Len(log) > 0
    /\ \E i \in CallIds : calls[i].op = "extend" /\ calls[i].res = "ErrExtend"
    /\ \E i \in CallIds : calls[i].op = "init" /\ calls[i].res = "ErrExtend"

\* C5: when the register extension succeeds and write_log fails, the call
\* returns an error, never Ok; the register keeps the extension; the
\* registers are ahead of the log only by the calls that returned that
\* error and by the call that is about to append.
C5_LogFailureIsReported ==
    /\ \A i \in CallIds :
          calls[i].res = "Ok"
              => i \in IdsOf(logOrder) /\ i \in IdsOf(RegIds)
    /\ \A i \in CallIds :
          calls[i].res = "ErrLog"
              => i \notin IdsOf(logOrder) /\ i \in IdsOf(RegIds)
    /\ \A r \in RegisterIndices : reg[r] = ChainOf(Len(regOrder), r)
    /\ Len(regOrder) = Len(logOrder) + NumErrLog
                       + Cardinality(InWrite)

C5_Witness ==
    /\ Quiescent
    /\ \E i \in CallIds : calls[i].op = "extend" /\ calls[i].res = "ErrLog"
    /\ Len(regOrder) = Len(log) + 1
    /\ Len(log) > 0

IsInitEntry(text) == text \in {InitEntry(alg) : alg \in HashAlgorithm}

InitEntriesInLog == {k \in 1..Len(log) : IsInitEntry(log[k])}

\* C6 (as stated): in every execution the INIT entry is extended and logged
\* at most once and precedes every entry of extend_runtime_measurement; no
\* extension takes effect before init and no second init takes effect.
C6_Original ==
    /\ Cardinality(InitEntriesInLog) <= 1
    /\ \A k \in InitEntriesInLog : k = 1
    /\ \A k \in 1..Len(regOrder) :
          calls[regOrder[k].id].op = "init" => k = 1
    /\ Len(regOrder) > 0 => calls[regOrder[1].id].op = "init"

\* C6 (amended): the agent does not enforce the lifecycle, the caller does.
\* Every init that succeeds extends and logs one INIT entry: the log holds
\* as many INIT entries as init calls have returned Ok, each of them is in
\* the log when its init returns, and logged entries keep their place, so an
\* INIT entry precedes the entries of the calls issued after its init
\* returned.  When the calls are issued one at a time, init first and only
\* once, the INIT entry is the first extension and the first log entry.
C6_InitLogged ==
    /\ Cardinality(InitEntriesInLog)
          = Cardinality({i \in CallIds :
                            calls[i].op = "init" /\ calls[i].res = "Ok"})
    /\ \A k \in 1..Len(log) :
          IsInitEntry(log[k]) <=> calls[logOrder[k]].op = "init"
    /\ \A i \in CallIds :
          (calls[i].op = "init" /\ calls[i].res = "Ok")
              => i \in IdsOf(logOrder) /\ i \in IdsOf(RegIds)
    /\ ( /\ Serial
         /\ Len(calls) > 0
         /\ calls[1].op = "init"
         /\ calls[1].res = "Ok"
         /\ \A i \in CallIds : calls[i].op = "init" => i = 1 )
          => /\ InitEntriesInLog = {1}
             /\ logOrder[1] = 1
             /\ regOrder[1].id = 1

C6_EntriesKeepTheirPlace ==
    \A k \in 1..Len(log) :
        /\ k <= Len(log')
        /\ log'[k] = log[k]
        /\ logOrder'[k] = logOrder[k]

C6_LifecycleIsTheCallers ==
    /\ []C6_InitLogged
    /\ [][C6_EntriesKeepTheirPlace]_vars

C6_Witness ==
    /\ Quiescent
    /\ Len(calls) = MaxCalls
    /\ \A i \in CallIds : calls[i].op = "init" <=> i = 1
    /\ AllOk
    /\ ~Serial
    /\ logOrder[1] = 1

RECURSIVE Zeros(_)
Zeros(n) ==
    IF n = 0 THEN ""
    ELSE IF n = 1 THEN "0"
    ELSE Zeros(n \div 2) \o Zeros(n - (n \div 2))

\* the INIT entry the documentation describes: the algorithm's name and the
\* all-zero hex digest of its output length
ExpectedInitEntry(alg) ==
    CASE alg = "Sha256" -> "INIT sha256/" \o Zeros(64)
      [] alg = "Sha384" -> "INIT sha384/" \o Zeros(96)
      [] alg = "Sha512" -> "INIT sha512/" \o Zeros(128)

InitOnly ==
    /\ Len(calls) = 1
    /\ calls[1].op = "init"
    /\ calls[1].res = "Ok"

\* C7: after a successful init and no extension the log is the single entry
\* "INIT <alg>/<zeros>" of the configured algorithm, with 64, 96 or 128
\* zeros, and the one digest extended is that algorithm's digest of the
\* entry's text.
C7_InitEntry ==
    InitOnly
        => /\ log = <<ExpectedInitEntry(config.eventlog_algorithm)>>
           /\ Len(regOrder) = 1
           /\ regOrder[1].digest = Digest(config.eventlog_algorithm, log[1])
           /\ reg[regOrder[1].index]
                 = Chain(Zero, Digest(config.eventlog_algorithm, log[1]))
           /\ \A r \in RegisterIndices \ {regOrder[1].index} : reg[r] = Zero

C7_Witness ==
    /\ InitOnly
    /\ config.eventlog_algorithm = "Sha384"
    /\ Len(log[1]) = 12 + 96

InitThenDefaultExtend ==
    /\ Quiescent
    /\ Serial
    /\ Len(calls) = 2
    /\ calls[1].op = "init"
    /\ calls[2].op = "extend"
    /\ calls[2].arg = None
    /\ AllOk

\* C8: after init and extend_runtime_measurement("workload", "start", "v1",
\* None), both succeeding, the extension went to register 17, the log has
\* two lines and register 17 holds
\* hash(hash(zero, digest(init_text)), digest(entry_text)), for every Config.
C8_InitAndDefaultShareRegister ==
    InitThenDefaultExtend
        => /\ regOrder[2].index = 17
           /\ Len(log) = 2
           /\ log[2] = "workload start v1"
           /\ reg[17] = Chain(Chain(Zero, Digest(config.eventlog_algorithm,
                                                 log[1])),
                              Digest(config.eventlog_algorithm, log[2]))

GetTokenStep ==
    \/ /\ Len(calls') = Len(calls) + 1
       /\ calls'[Len(calls')].op = "get_token"
    \/ \E i \in CallIds : At(i, "get_token", "wait") /\ calls'[i].pc = "done"

UnknownTokenCalls ==
    {i \in CallIds : /\ calls[i].op = "get_token"
                     /\ calls[i].arg[1] \notin {"kbs", "coco_as"}}

\* C9: get_token with a token type that matches no supported variant
\* returns an error; no step of get_token changes the log, a register, the
\* configuration or the eventlog guard, and no call of get_token ever holds
\* the guard.
C9_GetTokenStep ==
    GetTokenStep => UNCHANGED <<log, reg, config, lock, regOrder, logOrder>>

C9_UnknownTokenType ==
    /\ [](\A i \in UnknownTokenCalls : calls[i].res = "Err")
    /\ [](\A i \in CallIds : calls[i].op = "get_token" => lock # i)
    /\ [][C9_GetTokenStep]_vars

C9_Witness ==
    /\ UnknownTokenCalls # {}
    /\ calls[Len(calls)].op = "get_token"
    /\ lock # 0
    /\ Len(log) > 0

\* C10: extend_runtime_measurement extends register 17 when register_index
\* is absent and exactly the supplied index when it is present, and each
\* call extends one register, once.
C10_ResolvedRegister ==
    /\ \A k \in 1..Len(regOrder) :
          calls[regOrder[k].id].op = "extend"
              => regOrder[k].index = ExpectedIndex(calls[regOrder[k].id].arg)
    /\ Cardinality(IdsOf(RegIds)) = Len(regOrder)
    /\ \A r \in RegisterIndices : reg[r] = ChainOf(Len(regOrder), r)

C10_Witness ==
    /\ \E k \in 1..Len(regOrder) :
          /\ calls[regOrder[k].id].arg = None
          /\ calls[regOrder[k].id].op = "extend"
          /\ regOrder[k].index = 17
    /\ \E k \in 1..Len(regOrder) :
          /\ calls[regOrder[k].id].arg = Some(18)
          /\ regOrder[k].index = 18
    /\ reg[17] # Zero
    /\ reg[18] # Zero

Delegations == {"get_evidence", "check_init_data"}

\* a step of operation op: the call is issued, or it returns
StepOf(op) ==
    \/ /\ Len(calls') = Len(calls) + 1
       /\ calls'[Len(calls')].op = op
    \/ \E i \in CallIds : At(i, op, "wait") /\ calls'[i].pc = "done"

\* C11: no step of get_evidence or check_init_data, whether it ends in
\* success or failure, changes the log, a register or the configuration;
\* none of their calls ever holds the eventlog guard; and whoever holds the
\* guard, a pending get_evidence or check_init_data can return at once.
C11_DelegationStep ==
    (\E op \in Delegations : StepOf(op))
        => UNCHANGED <<log, reg, config, lock, regOrder, logOrder>>

C11_CanReturn ==
    /\ \A i \in CallIds :
          At(i, "get_evidence", "wait")
              => /\ ENABLED GetEvidenceReturn(i, "Ok")
                 /\ ENABLED GetEvidenceReturn(i, "Err")
    /\ \A i \in CallIds :
          At(i, "check_init_data", "wait")
              => /\ ENABLED CheckInitDataReturn(i, "Ok")
                 /\ ENABLED CheckInitDataReturn(i, "Err")

C11_PureDelegation ==
    /\ [][C11_DelegationStep]_vars
    /\ [](\A i \in CallIds : calls[i].op \in Delegations => lock # i)
    /\ []C11_CanReturn

C11_Witness ==
    \E i, j, k \in CallIds :
        /\ At(i, "extend", "write")
        /\ lock = i
        /\ At(j, "get_evidence", "wait")
        /\ calls[k].op = "check_init_data"
        /\ calls[k].res = "Err"
        /\ i < k

\* C12: a call of init or extend_runtime_measurement that has returned, with
\* Ok, with a failed extension or with a failed append, does not hold the
\* eventlog guard, and the guard is held only by a call between taking it
\* and returning; when the attester and write_log return and the guard is
\* granted fairly, every call that waits for the guard acquires it.
C12_GuardReleased ==
    /\ \A i \in CallIds : calls[i].pc = "done" => lock # i
    /\ lock # 0 => calls[lock].pc \in {"extend", "write"}
    /\ (\A i \in CallIds : calls[i].pc \notin {"extend", "write"}) => lock = 0

C12_GuardNeverLeaked ==
    /\ []C12_GuardReleased
    /\ \A i \in 1..MaxCalls :
          (i \in DOMAIN calls /\ calls[i].pc = "lock") ~> (lock = i)

C12_Witness ==
    \E i, j, k \in CallIds :
        /\ calls[i].res = "ErrExtend"
        /\ calls[j].res = "ErrLog"
        /\ i < k
        /\ j < k
        /\ lock = k

\* the step issues a call of update_configuration (it returns in that step)
UpdateStep ==
    /\ Len(calls') = Len(calls) + 1
    /\ calls'[Len(calls')].op = "update_configuration"

Updates ==
    {i \in CallIds : calls[i].op = "update_configuration" /\ calls[i].res = "Ok"}

\* C13: the Config changes only in a step of update_configuration that
\* succeeds, and then every field of it is the field of the Config parsed
\* from the text, none is kept from the Config before; update_configuration
\* is never in progress, so that every state holds either the Config before
\* or the one parsed: the Config is the one parsed by the last update that
\* succeeded.
C13_UpdateStep ==
    /\ config' # config => (UpdateStep /\ calls'[Len(calls')].res = "Ok")
    /\ (UpdateStep /\ calls'[Len(calls')].res = "Ok")
          => /\ calls'[Len(calls')].arg[1].parses
             /\ \A f \in DOMAIN config' :
                   config'[f] = calls'[Len(calls')].arg[1].value[f]
             /\ DOMAIN config' = DOMAIN calls'[Len(calls')].arg[1].value

C13_WholeConfig ==
    /\ \A i \in CallIds :
          calls[i].op = "update_configuration" => calls[i].pc = "done"
    /\ \A i \in Updates :
          (\A j \in Updates : j <= i) => config = calls[i].arg[1].value

C13_WholeConfigReplaced ==
    /\ [][C13_UpdateStep]_vars
    /\ []C13_WholeConfig

C13_Witness ==
    /\ \E i \in Updates :
          /\ calls[i].arg[1].value.eventlog_algorithm # "Sha256"
          /\ calls[i].arg[1].value.init_pcr # DEFAULT_PCR_INDEX
    /\ \E k \in 1..Len(regOrder) :
          /\ calls[regOrder[k].id].op = "init"
          /\ regOrder[k].index = 18
          /\ regOrder[k].digest[1] = "Sha384"

IsPrefix(s, t) == Len(s) <= Len(t) /\ SubSeq(t, 1, Len(s)) = s

\* C14: in every step of every operation the log before the step is a
\* prefix of the log after it; the log changes only by the append of one
\* entry, in the write_log step of init or extend_runtime_measurement, and
\* its length never decreases.
C14_AppendOnlyStep ==
    /\ IsPrefix(log, log')
    /\ Len(log') >= Len(log)
    /\ log' # log
          => \E i \in CallIds :
                /\ calls[i].op \in {"init", "extend"}
                /\ calls[i].pc = "write"
                /\ log' = Append(log, calls[i].log_entry)

C14_LogIsAppendOnly == [][C14_AppendOnlyStep]_vars

C14_Witness ==
    /\ Len(log) = 2
    /\ IsInitEntry(log[2])
    /\ \E i \in CallIds :
          calls[i].op \in Delegations \cup {"get_token", "update_configuration"}

\* the place in the order of extensions of the extension made by call i
ExtensionOf(i) == CHOOSE m \in 1..Len(regOrder) : regOrder[m].id = i

\* C15: in every state, the middle of a call included, the log has at most
\* as many entries as registers have been extended; every entry is the
\* preimage of a digest extended before, by the call that appended the
\* entry, and the entries are in the order of those extensions; the step
\* that appends an entry extends no register and is taken by a call whose
\* extension is already made.
C15_LoggedAfterExtended ==
    /\ Len(log) <= Len(regOrder)
    /\ \A k \in 1..Len(log) :
          /\ logOrder[k] \in IdsOf(RegIds)
          /\ regOrder[ExtensionOf(logOrder[k])].digest[2] = log[k]
          /\ k <= ExtensionOf(logOrder[k])
    /\ \A k, l \in 1..Len(log) :
          k < l => ExtensionOf(logOrder[k]) < ExtensionOf(logOrder[l])

C15_AppendStep ==
    log' # log
        => /\ reg' = reg
           /\ regOrder' = regOrder
           /\ Len(logOrder') = Len(logOrder) + 1
           /\ logOrder'[Len(logOrder')] \in IdsOf(RegIds)

C15_ExtendThenLog ==
    /\ []C15_LoggedAfterExtended
    /\ [][C15_AppendStep]_vars

C15_Witness ==
    /\ Len(log) = 1
    /\ Len(regOrder) = 3
    /\ InWrite # {}
    /\ NumErrLog = 1

\* the positions of a call, in the order of the code
Rank(pc) ==
    CASE pc = "lock" -> 1
      [] pc = "wait" -> 1
      [] pc = "extend" -> 2
      [] pc = "write" -> 3
      [] pc = "done" -> 4

Count(order, i) == Cardinality({k \in 1..Len(order) : order[k] = i})

\* C16: a call of init or extend_runtime_measurement passes each of its
\* positions once, in the order of the code: it asks the attester to extend
\* once and appends once at most, the failure of either step is the return
\* of the call, with that error and with no register or log action in the
\* step, and a call that has returned takes no further step.  Each call has
\* at most one extension and one entry; one whose extension failed has
\* neither, one whose append failed has its one extension and no entry.
C16_NoRetryStep ==
    \A i \in CallIds :
        /\ calls'[i].pc # calls[i].pc
              => Rank(calls'[i].pc) > Rank(calls[i].pc)
        /\ calls[i].pc = "done" => calls'[i] = calls[i]
        /\ (calls[i].pc # "done" /\ calls'[i].pc = "done"
                /\ IsErr(calls'[i].res))
              => UNCHANGED <<reg, log, regOrder, logOrder>>
        /\ (calls[i].pc = "extend" /\ calls'[i].pc = "done")
              => calls'[i].res = "ErrExtend"
        /\ (calls[i].pc = "write" /\ calls'[i].pc = "done" /\ log' = log)
              => calls'[i].res = "ErrLog"

C16_AtMostOnce ==
    \A i \in CallIds :
        /\ Count(RegIds, i) <= 1
        /\ Count(logOrder, i) <= 1
        /\ calls[i].res = "ErrExtend"
              => Count(RegIds, i) = 0 /\ Count(logOrder, i) = 0
        /\ calls[i].res = "ErrLog"
              => Count(RegIds, i) = 1 /\ Count(logOrder, i) = 0

C16_NoRetry ==
    /\ [][C16_NoRetryStep]_vars
    /\ []C16_AtMostOnce

C16_Witness ==
    /\ Quiescent
    /\ \E i, j \in CallIds :
          /\ calls[i].op = "init"
          /\ calls[i].res = "ErrLog"
          /\ calls[j].op = "extend"
          /\ calls[j].res = "ErrExtend"
    /\ Len(regOrder) = 1
    /\ Len(log) = 0
    /\ Len(calls) = MaxCalls

UpdatesBefore(i) == {j \in Updates : j < i}

\* the hash algorithm of the Config held when call i was issued
AlgAtStart(i) ==
    IF UpdatesBefore(i) = {} THEN StartConfig.eventlog_algorithm
    ELSE LET j == CHOOSE u \in UpdatesBefore(i) :
                      \A v \in UpdatesBefore(i) : v <= u
         IN calls[j].arg[1].value.eventlog_algorithm

\* C17: the digest a call holds, and the digest it has extended, is the
\* digest of the text it appends, under the algorithm of the Config held
\* when the call was issued, and the INIT entry is the one of that
\* algorithm; a step of update_configuration changes no call already issued,
\* no digest extended and no text logged.
C17_DigestOfLoggedText ==
    /\ \A i \in CallIds :
          calls[i].pc \in {"lock", "extend", "write"}
              => /\ calls[i].event_digest
                       = Digest(AlgAtStart(i), calls[i].log_entry)
                 /\ calls[i].op = "init"
                       => calls[i].log_entry = InitEntry(AlgAtStart(i))
    /\ \A i \in InWrite :
          regOrder[ExtensionOf(i)].digest
              = Digest(AlgAtStart(i), calls[i].log_entry)
    /\ \A k \in 1..Len(log) :
          /\ regOrder[ExtensionOf(logOrder[k])].digest
                = Digest(AlgAtStart(logOrder[k]), log[k])
          /\ calls[logOrder[k]].op = "init"
                => log[k] = InitEntry(AlgAtStart(logOrder[k]))

C17_UpdateLeavesCalls ==
    UpdateStep
        => /\ SubSeq(calls', 1, Len(calls)) = calls
           /\ UNCHANGED <<reg, log, regOrder, logOrder>>

C17_DigestUnderStartingAlgorithm ==
    /\ []C17_DigestOfLoggedText
    /\ [][C17_UpdateLeavesCalls]_vars

C17_Witness ==
    /\ Quiescent
    /\ Len(calls) = 3
    /\ 2 \in Updates
    /\ logOrder = <<3, 1>>
    /\ regOrder[1].digest[1] = "Sha384"
    /\ regOrder[2].digest[1] = "Sha256"

FailedUpdates ==
    {i \in CallIds : calls[i].op = "update_configuration" /\ calls[i].res = "Err"}

\* C18: a step of update_configuration changes neither the log, nor a
\* register, nor the eventlog guard; it returns Ok or an error in that
\* step; a text that does not parse gives an error; and when the call
\* returns an error, for the temporary file or for the parse, the Config
\* after the step is the Config before it.
C18_UpdateStep ==
    UpdateStep
        => /\ UNCHANGED <<log, reg, lock, regOrder, logOrder>>
           /\ calls'[Len(calls')].pc = "done"
           /\ calls'[Len(calls')].res \in {"Ok", "Err"}
           /\ ~calls'[Len(calls')].arg[1].parses
                 => calls'[Len(calls')].res = "Err"
           /\ calls'[Len(calls')].res = "Err" => config' = config

C18_FailedUpdateKeepsConfig ==
    /\ [][C18_UpdateStep]_vars
    /\ [](\A i \in CallIds : calls[i].op = "update_configuration" => lock # i)
    /\ []((Updates = {} /\ FailedUpdates # {}) => config = StartConfig)

C18_Witness ==
    /\ \E i \in FailedUpdates : calls[i].arg[1].parses
    /\ \E i \in FailedUpdates : ~calls[i].arg[1].parses
    /\ config = StartConfig
    /\ lock # 0
    /\ InWrite # {}

====
